---- MODULE Spec2Model ----
(***************************************************************************)
(* A model of gather-context (src/src/main.rs): the pipeline of main       *)
(* (symbol index, call-graph resolver, function selector, breadth-first    *)
(* context assembler) and the brace-matching scan of process_file.         *)
(*                                                                         *)
(* A Rust String is a sequence of one-character strings; an Option is a    *)
(* sequence of length 0 (None) or 1 (Some); a HashMap is a function whose  *)
(* DOMAIN is its key set; a HashSet is a set, and a loop over one visits   *)
(* its elements in an order the model leaves open.                         *)
(***************************************************************************)
EXTENDS Integers, Sequences, FiniteSets, TLC

\* ------------------------------------------------------------------ bounds
\* The most files a scanned project holds.
MaxFiles == 3
\* The most characters that follow the signature fragment in a scanned file.
MaxLen == 5

\* ------------------------------------------------------- program constants
\* main.rs:123 `i < 10`: the suggestions looked at.
MaxSuggestions == 10
\* main.rs:317 `def_end + 5000`: the fallback window.
FallbackWindow == 5000

\* ----------------------------------------------------------------- strings
None == << >>
Some(x) == << x >>

Min(S) == CHOOSE x \in S : \A y \in S : x <= y
Max(S) == CHOOSE x \in S : \A y \in S : x >= y

\* pat occurs in s at (1-based) position i.
MatchesAt(s, pat, i) ==
    /\ i + Len(pat) - 1 <= Len(s)
    /\ \A k \in 1..Len(pat) : s[i + k - 1] = pat[k]

\* str::contains
Contains(s, pat) == \E i \in 1..(Len(s) + 1) : MatchesAt(s, pat, i)

\* str::ends_with
EndsWith(s, pat) ==
    Len(s) >= Len(pat) /\ MatchesAt(s, pat, Len(s) - Len(pat) + 1)

\* str::replace: every non-overlapping occurrence, left to right.
RECURSIVE ReplaceFrom(_, _, _, _)
ReplaceFrom(s, pat, rep, i) ==
    IF i > Len(s) THEN << >>
    ELSE IF MatchesAt(s, pat, i)
         THEN rep \o ReplaceFrom(s, pat, rep, i + Len(pat))
         ELSE << s[i] >> \o ReplaceFrom(s, pat, rep, i + 1)

Replace(s, pat, rep) == ReplaceFrom(s, pat, rep, 1)

\* The orders in which a loop may visit the elements of a hashed collection.
Orderings(S) ==
    { s \in [1..Cardinality(S) -> S] :
        \A i, j \in 1..Cardinality(S) : i # j => s[i] # s[j] }

RECURSIVE Flatten(_)
Flatten(ss) == IF ss = << >> THEN << >> ELSE Head(ss) \o Flatten(Tail(ss))

\* ------------------------------------------------------------------ inputs
\* Function names.
n_main == << "m", "a", "i", "n" >>
n_helper == << "h", "e", "l", "p" >>
n_run == << "r", "u", "n" >>
n_rerun == << "r", "e", "r", "u", "n" >>
n_log == << "l", "o", "g" >>

\* Paths below the project root.
p_a == << "a", ".", "r", "s" >>
p_a_mod == << "a", "/", "m", "o", "d", ".", "r", "s" >>
p_b == << "b", ".", "r", "s" >>
p_ab_lib == << "a", "b", "/", "l", "i", "b", ".", "r", "s" >>

Paths == { p_a, p_a_mod, p_b, p_ab_lib }

\* What process_file returns for a file: function name -> raw call names.
\* A signature `fn helper(` is itself matched by the call pattern, hence the
\* self references.
Body_helper == n_helper :> { n_helper }
Body_main == n_main :> { n_main, n_helper }
Body_wide ==
    (n_main :> { n_run, n_helper }) @@ (n_helper :> { n_log })
        @@ (n_run :> { n_run, n_rerun }) @@ (n_rerun :> { n_main, n_helper })

Bodies == { Body_helper, Body_main, Body_wide }

FileSet == [ path : Paths, functions : Bodies ]

\* The file collector's result: files with distinct paths, in walk order.
Projects ==
    UNION { { fs \in [1..n -> FileSet] :
                \A i, j \in 1..n : i # j => fs[i].path # fs[j].path } :
            n \in 0..MaxFiles }

\* args[2] and args[3]: a request, and with the request for main perhaps a
\* hint.
Requests ==
    { << n_main, None >>, << n_main, Some(<< "b" >>) >>,
      << << "r", "u" >>, None >>, << << >>, None >> }


\* ------------------------------------------------------------------- state
VARIABLES
    rust_files,            \* collect_rust_files' result (read-only)
    target_function,       \* args[2]
    preferred_module,      \* args[3], an Option
    file_idx,              \* position of the loop over rust_files
    function_definitions,  \* qualified name -> FunctionInfo
    module_functions,      \* bare name -> sequence of <<qualified name, module>>
    function_calls,        \* qualified name -> set of qualified names
    selected_function,     \* an Option
    queue,
    visited,
    output,                \* the document: the sections pushed so far
    matches,               \* the partial matches of a request not found
    reported,              \* the suggestions printed to the diagnostics
    exit_code,             \* an Option: None while the process runs
    pc,
    content,               \* process_file: the text of the scanned file
    scan_i,                \* process_file: characters the scan has consumed
    brace_count,
    found_opening_brace,
    def_end,               \* a byte offset into content
    fn_body,               \* an Option: the extracted definition text
    scan_pc

mainVars ==
    << rust_files, target_function, preferred_module, file_idx,
       function_definitions, module_functions, function_calls,
       selected_function, queue, visited, output, matches, reported,
       exit_code, pc >>

scanVars ==
    << content, scan_i, brace_count, found_opening_brace, def_end, fn_body,
       scan_pc >>

vars == << mainVars, scanVars >>

EmptyMap == [ x \in {} |-> {} ]

\* --------------------------------------------------------- the symbol index
\* main.rs:249-267
extract_module_path(rel_path) ==
    LET module_path ==
            Replace(Replace(Replace(rel_path, << "/" >>, << ":", ":" >>),
                            << "\\" >>, << ":", ":" >>),
                    << ".", "r", "s" >>, << >>)
    IN  IF EndsWith(module_path, << ":", ":", "l", "i", "b" >>)
        THEN SubSeq(module_path, 1, Len(module_path) - 5)
        ELSE IF EndsWith(module_path, << ":", ":", "m", "o", "d" >>)
             THEN SubSeq(module_path, 1, Len(module_path) - 5)
             ELSE module_path

\* main.rs:61 format!("{}::{}", module_path, name)
qualified_name(module_path, name) == module_path \o << ":", ":" >> \o name

\* main.rs:400-409: the record process_file builds for `name` of file `path`.
\* The definition text is named by the file and the function it was cut from.
FunctionInfo(path, module_path, name, calls) ==
    [ path |-> path,
      module_path |-> module_path,
      definition |-> << path, name >>,
      calls |-> calls ]

\* HashMap::insert keeping the entry already there.
insert_keep_first(map, key, value) ==
    [ k \in DOMAIN map \cup { key } |->
        IF k \in DOMAIN map THEN map[k] ELSE value ]

\* main.rs:62 HashMap::insert: a present key's value is replaced.
insert_definition(map, key, value) ==
    [ k \in DOMAIN map \cup { key } |-> IF k = key THEN value ELSE map[k] ]

\* main.rs:65-68 entry(name).or_insert_with(Vec::new).push(..)
push_variant(map, name, variant) ==
    [ n \in DOMAIN map \cup { name } |->
        IF n = name
        THEN Append(IF name \in DOMAIN map THEN map[name] ELSE << >>, variant)
        ELSE map[n] ]

\* main.rs:59-69: the loop over one file's functions, visited in `order`.
RECURSIVE index_functions(_, _, _, _, _, _)
index_functions(defs, by_name, path, module_path, functions, order) ==
    IF order = << >> THEN [ defs |-> defs, by_name |-> by_name ]
    ELSE LET name == Head(order)
             qn == qualified_name(module_path, name)
             info == FunctionInfo(path, module_path, name, functions[name])
         IN  index_functions(insert_definition(defs, qn, info),
                             push_variant(by_name, name, << qn, module_path >>),
                             path, module_path, functions, Tail(order))

\* main.rs:55-70, one iteration of the loop over rust_files. The functions of
\* one file have distinct names, so each insert and each push of the inner
\* loop has a key of its own and every visiting order gives the same two
\* maps: the loop is run in one of them.
IndexFile ==
    /\ pc = "index"
    /\ file_idx <= Len(rust_files)
    /\ LET file == rust_files[file_idx]
           module_path == extract_module_path(file.path)
           order == CHOOSE o \in Orderings(DOMAIN file.functions) : TRUE
           r == index_functions(function_definitions, module_functions,
                                file.path, module_path, file.functions, order)
       IN  /\ function_definitions' = r.defs
           /\ module_functions' = r.by_name
    /\ file_idx' = file_idx + 1
    /\ UNCHANGED << rust_files, target_function, preferred_module,
                    function_calls, selected_function, queue, visited, output,
                    matches, reported, exit_code, pc, scanVars >>

\* ------------------------------------------------- the call graph resolver
\* main.rs:85 qualified_name.rsplit_once("::").map(|(m, _)| m)
caller_module(qn) ==
    LET at == { i \in 1..Len(qn) : MatchesAt(qn, << ":", ":" >>, i) }
    IN  IF at = {} THEN None ELSE Some(SubSeq(qn, 1, Max(at) - 1))

\* The resolver without the same-module preference.
resolve_first(qn, called_fn, by_name) ==
    IF called_fn \notin DOMAIN by_name THEN {}
    ELSE { by_name[called_fn][1][1] }

\* main.rs:77-96: the edges one raw call name of caller `qn` resolves to.
resolve_call(qn, called_fn, by_name) ==
    IF called_fn \notin DOMAIN by_name THEN {}
    ELSE LET options == by_name[called_fn]
         IN  IF Len(options) = 1 THEN { options[1][1] }
             ELSE LET same_module ==
                          { i \in 1..Len(options) :
                              caller_module(qn) = Some(options[i][2]) }
                  IN  IF same_module # {}
                      THEN { options[Min(same_module)][1] }
                      ELSE { options[1][1] }

\* A resolver that records only the callers with at least one edge.
build_nonempty_calls(defs, by_name) ==
    LET edges(qn) ==
            UNION { resolve_call(qn, c, by_name) : c \in defs[qn].calls }
    IN  [ qn \in { q \in DOMAIN defs : edges(q) # {} } |-> edges(qn) ]

\* main.rs:73-99
build_function_calls(defs, by_name) ==
    [ qn \in DOMAIN defs |->
        UNION { resolve_call(qn, c, by_name) : c \in defs[qn].calls } ]

Resolve ==
    /\ pc = "index"
    /\ file_idx > Len(rust_files)
    /\ function_calls' =
           build_function_calls(function_definitions, module_functions)
    /\ pc' = "select"
    /\ UNCHANGED << rust_files, target_function, preferred_module, file_idx,
                    function_definitions, module_functions, selected_function,
                    queue, visited, output, matches, reported, exit_code,
                    scanVars >>

\* --------------------------------------------------- the function selector
\* A hint compared for equality instead of containment.
module_equals(mod_path, module) == mod_path = module

\* main.rs:198 mod_path.contains(module)
module_matches(mod_path, module) == Contains(mod_path, module)

\* main.rs:183-228
find_function(target, preferred, by_name) ==
    IF target \notin DOMAIN by_name THEN None
    ELSE LET variants == by_name[target]
             hits == IF preferred = None THEN {}
                     ELSE { i \in 1..Len(variants) :
                              module_matches(variants[i][2], preferred[1]) }
         IN  IF Len(variants) = 1 THEN Some(variants[1][1])
             ELSE IF preferred # None /\ hits # {}
                  THEN Some(variants[Min(hits)][1])
                  ELSE Some(variants[1][1])

\* main.rs:107-114: the variants of every name that contains the request, the
\* names taken in the map's iteration order `order`.
partial_matches(target, by_name, order) ==
    Flatten([ i \in 1..Len(order) |->
                IF Contains(order[i], target) THEN by_name[order[i]]
                ELSE << >> ])

\* The suggestions without the limit on the matches looked at.
RECURSIVE suggest_unlimited(_, _, _)
suggest_unlimited(ms, i, deduped) ==
    IF i > Len(ms) THEN << >>
    ELSE IF ms[i][1] \notin deduped
         THEN << ms[i] >> \o suggest_unlimited(ms, i + 1, deduped \cup { ms[i][1] })
         ELSE suggest_unlimited(ms, i + 1, deduped)

\* main.rs:121-126: match i (1-based here) is printed when it is among the
\* first ten and its qualified name was not printed before.
RECURSIVE suggest_from(_, _, _)
suggest_from(ms, i, deduped) ==
    IF i > Len(ms) THEN << >>
    ELSE IF i - 1 < MaxSuggestions /\ ms[i][1] \notin deduped
         THEN << ms[i] >> \o suggest_from(ms, i + 1, deduped \cup { ms[i][1] })
         ELSE suggest_from(ms, i + 1, deduped)

suggestions_unlimited(ms) == suggest_unlimited(ms, 1, {})

suggestions(ms) == suggest_from(ms, 1, {})

\* main.rs:102-104, 138-146: the request resolves; the traversal is seeded.
SelectFound ==
    /\ pc = "select"
    /\ find_function(target_function, preferred_module, module_functions) # None
    /\ selected_function' =
           find_function(target_function, preferred_module, module_functions)
    /\ queue' = << selected_function'[1] >>
    /\ visited' = {}
    /\ output' = << >>
    /\ pc' = "bfs"
    /\ UNCHANGED << rust_files, target_function, preferred_module, file_idx,
                    function_definitions, module_functions, function_calls,
                    matches, reported, exit_code, scanVars >>

\* main.rs:105-135: the request is not a known name; suggestions, exit(1).
SelectNotFound ==
    /\ pc = "select"
    /\ find_function(target_function, preferred_module, module_functions) = None
    /\ \E order \in Orderings(DOMAIN module_functions) :
         matches' = partial_matches(target_function, module_functions, order)
    /\ reported' = suggestions(matches')
    /\ exit_code' = Some(1)
    /\ pc' = "exit"
    /\ UNCHANGED << rust_files, target_function, preferred_module, file_idx,
                    function_definitions, module_functions, function_calls,
                    selected_function, queue, visited, output, scanVars >>

\* --------------------------------------------------- the context assembler
\* A visited test that never skips.
never_visited(seen, current_function) == FALSE

\* main.rs:149 visited.contains(&current_function)
already_visited(seen, current_function) == current_function \in seen

\* Marking the callees as visited when they are enqueued.
mark_with_callees(seen, current_function, called_fns) ==
    seen \cup { current_function } \cup called_fns

\* main.rs:153 visited.insert(current_function.clone())
mark_visited(seen, current_function, called_fns) ==
    seen \cup { current_function }

\* The callees put at the front of the queue.
push_front_all(q, called) == called \o q

\* main.rs:164-166 queue.push_back for each callee, in iteration order.
push_back_all(q, called) == q \o called

\* main.rs:158-160: the section of the document (path, definition); the
\* qualified name is kept beside it to tell which function a section is of.
Section(qn, info) ==
    [ qualified_name |-> qn, path |-> info.path, definition |-> info.definition ]

\* main.rs:148-151: the dequeued function was visited before.
BfsSkip ==
    /\ pc = "bfs"
    /\ queue # << >>
    /\ already_visited(visited, Head(queue))
    /\ queue' = Tail(queue)
    /\ UNCHANGED << rust_files, target_function, preferred_module, file_idx,
                    function_definitions, module_functions, function_calls,
                    selected_function, visited, output, matches, reported,
                    exit_code, pc, scanVars >>

\* main.rs:148-168: the dequeued function is new.
BfsVisit ==
    /\ pc = "bfs"
    /\ queue # << >>
    /\ ~ already_visited(visited, Head(queue))
    /\ LET current_function == Head(queue)
           defined == current_function \in DOMAIN function_definitions
           called_fns ==
               IF defined /\ current_function \in DOMAIN function_calls
               THEN function_calls[current_function] ELSE {}
       IN  /\ visited' = mark_visited(visited, current_function, called_fns)
           /\ output' =
                  IF defined
                  THEN Append(output,
                              Section(current_function,
                                      function_definitions[current_function]))
                  ELSE output
           /\ \E order \in Orderings(called_fns) :
                queue' = push_back_all(Tail(queue), order)
    /\ UNCHANGED << rust_files, target_function, preferred_module, file_idx,
                    function_definitions, module_functions, function_calls,
                    selected_function, matches, reported, exit_code, pc,
                    scanVars >>

\* main.rs:148, 171-180: the queue is empty; the document is written.
Finish ==
    /\ pc = "bfs"
    /\ queue = << >>
    /\ exit_code' = Some(0)
    /\ pc' = "done"
    /\ UNCHANGED << rust_files, target_function, preferred_module, file_idx,
                    function_definitions, module_functions, function_calls,
                    selected_function, queue, visited, output, matches,
                    reported, scanVars >>

\* ------------------------------------------------------- the specification
ScanIdle ==
    /\ content = << >>
    /\ scan_i = 0
    /\ brace_count = 0
    /\ found_opening_brace = FALSE
    /\ def_end = 0
    /\ fn_body = None
    /\ scan_pc = "idle"

\* main.rs:20-53: the arguments are read and the files collected.
Init ==
    /\ rust_files \in Projects
    /\ \E request \in Requests :
         /\ target_function = request[1]
         /\ preferred_module = request[2]
    /\ file_idx = 1
    /\ function_definitions = EmptyMap
    /\ module_functions = EmptyMap
    /\ function_calls = EmptyMap
    /\ selected_function = None
    /\ queue = << >>
    /\ visited = {}
    /\ output = << >>
    /\ matches = << >>
    /\ reported = << >>
    /\ exit_code = None
    /\ pc = "index"
    /\ ScanIdle

Next ==
    \/ IndexFile
    \/ Resolve
    \/ SelectFound
    \/ SelectNotFound
    \/ BfsSkip
    \/ BfsVisit
    \/ Finish

Spec == Init /\ [][Next]_vars

\* main.rs:148-169: a step of the traversal loop, or leaving it.
BfsStep == BfsSkip \/ BfsVisit \/ Finish

\* main runs on one thread to its end: while the traversal loop can take a
\* step, it takes one.
FairSpec == Spec /\ WF_vars(BfsStep)

\* ------------------------------------- process_file: the brace-matching scan
\* A character that takes two bytes in UTF-8 (U+00E9); the others take one.
e_acute == "U+00E9"

\* char::len_utf8
len_utf8(c) == IF c = e_acute THEN 2 ELSE 1

\* str::len: the length in bytes.
RECURSIVE byte_len(_)
byte_len(s) == IF s = << >> THEN 0 ELSE len_utf8(Head(s)) + byte_len(Tail(s))

\* str::is_char_boundary
is_char_boundary(s, b) == \E k \in 0..Len(s) : byte_len(SubSeq(s, 1, k)) = b

\* The characters wholly before byte offset b.
chars_before(s, b) == Max({ k \in 0..Len(s) : byte_len(SubSeq(s, 1, k)) <= b })

\* s[a..b], for byte offsets a and b that are character boundaries.
byte_slice(s, a, b) == SubSeq(s, chars_before(s, a) + 1, chars_before(s, b))

is_whitespace(c) == c \in { " ", "\n", "\t", "\r" }

\* str::trim
RECURSIVE trim_start(_)
trim_start(s) ==
    IF s # << >> /\ is_whitespace(Head(s)) THEN trim_start(Tail(s)) ELSE s

RECURSIVE trim_end(_)
trim_end(s) ==
    IF s # << >> /\ is_whitespace(s[Len(s)])
    THEN trim_end(SubSeq(s, 1, Len(s) - 1)) ELSE s

trim(s) == trim_end(trim_start(s))

\* main.rs:286-300: the text fn_regex matches, at the start of the file, so
\* that def_start is 0 and the scan starts at byte_len(Signature).
Signature == << "f", "n", " ", "f", "(" >>

Alphabet == { "{", "}", "x", e_acute }

\* The scanned files: the signature and up to MaxLen characters after it.
Contents ==
    { Signature \o rest :
        rest \in UNION { [1..n -> Alphabet] : n \in 0..MaxLen } }

\* main.rs:302 content[def_end..] as the scan starts.
scanned(text) == SubSeq(text, Len(Signature) + 1, Len(text))

\* main.rs:302-313, one iteration of the loop over the characters.
ScanChar ==
    /\ scan_pc = "scan"
    /\ scan_i < Len(scanned(content))
    /\ LET c == scanned(content)[scan_i + 1]
       IN  IF c = "{"
           THEN /\ found_opening_brace' = TRUE
                /\ brace_count' = brace_count + 1
                /\ scan_i' = scan_i + 1
                /\ UNCHANGED << def_end, scan_pc >>
           ELSE IF c = "}"
                THEN /\ brace_count' = brace_count - 1
                     /\ IF brace_count' = 0 /\ found_opening_brace
                        THEN /\ def_end' = def_end + scan_i + 1
                             /\ scan_pc' = "extract"
                             /\ UNCHANGED scan_i
                        ELSE /\ scan_i' = scan_i + 1
                             /\ UNCHANGED << def_end, scan_pc >>
                     /\ UNCHANGED found_opening_brace
                ELSE /\ scan_i' = scan_i + 1
                     /\ UNCHANGED << brace_count, found_opening_brace, def_end,
                                     scan_pc >>
    /\ UNCHANGED << content, fn_body, mainVars >>

\* main.rs:302: the characters ran out without a break.
ScanEnd ==
    /\ scan_pc = "scan"
    /\ scan_i = Len(scanned(content))
    /\ scan_pc' = "extract"
    /\ UNCHANGED << content, scan_i, brace_count, found_opening_brace, def_end,
                    fn_body, mainVars >>

\* main.rs:315-320: the fallback window, then the slice (which panics when
\* def_end is inside a character) and the trim.
ExtractDefinition ==
    /\ scan_pc = "extract"
    /\ def_end' =
           IF ~ found_opening_brace \/ brace_count # 0
           THEN Min({ def_end + FallbackWindow, byte_len(content) })
           ELSE def_end
    /\ IF is_char_boundary(content, def_end')
       THEN /\ fn_body' = Some(trim(byte_slice(content, 0, def_end')))
            /\ scan_pc' = "done"
       ELSE /\ fn_body' = None
            /\ scan_pc' = "panic"
    /\ UNCHANGED << content, scan_i, brace_count, found_opening_brace,
                    mainVars >>

MainIdle ==
    /\ rust_files = << >>
    /\ target_function = << >>
    /\ preferred_module = None
    /\ file_idx = 1
    /\ function_definitions = EmptyMap
    /\ module_functions = EmptyMap
    /\ function_calls = EmptyMap
    /\ selected_function = None
    /\ queue = << >>
    /\ visited = {}
    /\ output = << >>
    /\ matches = << >>
    /\ reported = << >>
    /\ exit_code = None
    /\ pc = "idle"

\* main.rs:288-300: fn_regex has matched Signature in a file.
InitScan ==
    /\ content \in Contents
    /\ scan_i = 0
    /\ brace_count = 0
    /\ found_opening_brace = FALSE
    /\ def_end = byte_len(Signature)
    /\ fn_body = None
    /\ scan_pc = "scan"
    /\ MainIdle

NextScan ==
    \/ ScanChar
    \/ ScanEnd
    \/ ExtractDefinition

SpecScan == InitScan /\ [][NextScan]_vars

\* ------------------------------------------------------------ the claims
Emitted == { output[i].qualified_name : i \in 1..Len(output) }

\* The callees, in the call graph, of the functions of S.
Callees(S) == UNION { function_calls[q] : q \in S \cap DOMAIN function_calls }

\* The qualified names at most k call-graph edges away from start.
RECURSIVE WithinDistance(_, _)
WithinDistance(start, k) ==
    IF k = 0 THEN { start }
    ELSE LET W == WithinDistance(start, k - 1) IN W \cup Callees(W)

Reachable(start) == WithinDistance(start, Cardinality(DOMAIN function_calls))

Distance(start, q) ==
    Min({ k \in 0..Cardinality(DOMAIN function_calls) :
            q \in WithinDistance(start, k) })

Resolved == pc \in { "select", "bfs", "done", "exit" }

\* C1: the assembler emits no qualified function twice, and when the loop has
\* ended the emitted functions are exactly those reachable from the start
\* through call-graph edges.
C1_EmittedIsReachable ==
    /\ \A i, j \in 1..Len(output) :
         output[i].qualified_name = output[j].qualified_name => i = j
    /\ pc = "done" => Emitted = Reachable(selected_function[1])

\* A finished traversal of a graph with a self edge, a cycle through the
\* start, and a defined function that is not reachable.
C1_Witness ==
    /\ pc = "done"
    /\ \E q \in Emitted : q \in function_calls[q]
    /\ \E q \in Emitted \ { selected_function[1] } :
         selected_function[1] \in function_calls[q]
    /\ DOMAIN function_definitions \ Emitted # {}

TwoFileScenario ==
    /\ Len(rust_files) = 2
    /\ { rust_files[1], rust_files[2] } =
           { [ path |-> p_a, functions |-> Body_helper ],
             [ path |-> p_b, functions |-> Body_main ] }
    /\ target_function = n_main

\* C2: the sections are in breadth-first order: the first is the start, and
\* when a function at distance d+1 is emitted every function at distance d
\* (or less) has been emitted before it; in the two-file scenario the document
\* is main's section, then helper's.
C2_BfsOrder ==
    pc \in { "bfs", "done" } =>
        LET start == selected_function[1]
            dist == [ q \in Reachable(start) |-> Distance(start, q) ]
        IN  /\ output # << >> => output[1].qualified_name = start
            /\ \A i \in 1..Len(output) : \A q \in DOMAIN dist :
                 dist[q] < dist[output[i].qualified_name]
                     => \E j \in 1..(i - 1) : output[j].qualified_name = q
            /\ (pc = "done" /\ TwoFileScenario) =>
                 output =
                     << [ qualified_name |-> qualified_name(<< "b" >>, n_main),
                          path |-> p_b, definition |-> << p_b, n_main >> ],
                        [ qualified_name |-> qualified_name(<< "a" >>, n_helper),
                          path |-> p_a, definition |-> << p_a, n_helper >> ] >>

\* A finished document with two functions at distance 1 and one at distance 2.
C2_Witness ==
    /\ pc = "done"
    /\ Len(output) >= 4
    /\ Distance(selected_function[1], output[2].qualified_name) = 1
    /\ Distance(selected_function[1], output[3].qualified_name) = 1
    /\ Distance(selected_function[1], output[4].qualified_name) = 2

\* What the claim says one raw call name of caller qn resolves to.
ExpectedEdges(qn, called_fn) ==
    LET own == function_definitions[qn].module_path
    IN  IF called_fn \notin DOMAIN module_functions THEN {}
        ELSE LET variants == module_functions[called_fn]
             IN  IF Len(variants) = 1 THEN { variants[1][1] }
                 ELSE IF \E i \in 1..Len(variants) : variants[i][2] = own
                      THEN { qualified_name(own, called_fn) }
                      ELSE { variants[1][1] }

\* C3: a raw call name absent from by_name gives no edge, one with a single
\* variant gives that variant, one with several gives the variant of the
\* caller's own module when there is one and else the first variant.
C3_ResolverPolicy ==
    Resolved =>
        \A qn \in DOMAIN function_definitions :
            /\ qn \in DOMAIN function_calls
            /\ function_calls[qn] =
                   UNION { ExpectedEdges(qn, c) :
                             c \in function_definitions[qn].calls }

\* A caller whose own module's variant is not the first of several.
C3_Witness ==
    /\ Resolved
    /\ \E qn \in DOMAIN function_definitions :
         \E c \in function_definitions[qn].calls :
            /\ c \in DOMAIN module_functions
            /\ Len(module_functions[c]) > 1
            /\ module_functions[c][1][2] # function_definitions[qn].module_path
            /\ qualified_name(function_definitions[qn].module_path, c)
                   \in function_calls[qn]

\* The files that define the requested name, and those among them whose
\* module path contains the hint.
Definers ==
    { i \in 1..Len(rust_files) : target_function \in DOMAIN rust_files[i].functions }

HintedDefiners ==
    { i \in Definers :
        /\ preferred_module # None
        /\ Contains(extract_module_path(rust_files[i].path), preferred_module[1]) }

\* C4: the selector returns the sole variant whatever the hint; with several
\* variants, the first in discovery order whose module path contains the hint,
\* and the first in discovery order when there is no hint or no variant
\* matches it.
C4_SelectorPolicy ==
    pc \in { "bfs", "done" } =>
        LET chosen ==
                IF Cardinality(Definers) = 1 THEN Min(Definers)
                ELSE IF HintedDefiners # {} THEN Min(HintedDefiners)
                     ELSE Min(Definers)
        IN  /\ Definers # {}
            /\ selected_function =
                   Some(qualified_name(
                            extract_module_path(rust_files[chosen].path),
                            target_function))

\* Several variants, and the hint picks one that is not the first.
C4_Witness ==
    /\ pc = "done"
    /\ HintedDefiners # {}
    /\ Min(HintedDefiners) # Min(Definers)

\* The bare names that contain the request.
PartialNames ==
    { n \in DOMAIN module_functions : Contains(n, target_function) }

\* C5: a request with no entry in by_name never selects a start function and
\* never emits a document: the run ends with exit status 1, having reported at
\* most 10 suggestions, none twice, each a variant of a name that contains the
\* request, and none exactly when no name contains it.
C5_NotFound ==
    /\ (Resolved /\ pc # "select" /\ target_function \notin DOMAIN module_functions)
           => pc = "exit"
    /\ pc = "exit" =>
         /\ target_function \notin DOMAIN module_functions
         /\ selected_function = None
         /\ output = << >>
         /\ exit_code = Some(1)
         /\ Len(reported) <= 10
         /\ \A i, j \in 1..Len(reported) :
              reported[i][1] = reported[j][1] => i = j
         /\ \A i \in 1..Len(reported) :
              \E n \in PartialNames : \E k \in 1..Len(module_functions[n]) :
                 reported[i] = module_functions[n][k]
         /\ reported = << >> <=> PartialNames = {}

\* More than ten matches, of which ten are reported.
C5_Witness ==
    /\ pc = "exit"
    /\ Len(matches) > 10
    /\ Len(reported) = 10

\* The module path of each file.
ModulePaths == [ i \in 1..Len(rust_files) |-> extract_module_path(rust_files[i].path) ]

\* The files indexed so far that declare `name` in module m.
Writers(mods, m, name) ==
    { j \in 1..(file_idx - 1) :
        mods[j] = m /\ name \in DOMAIN rust_files[j].functions }

\* C7: files that collide on module path and function name do not make the
\* index fail: definitions holds one record under the qualified name, that of
\* the file processed last.
C7_LastWriterWins ==
    pc \in { "index", "select" } =>
        LET mods == ModulePaths
        IN  /\ \A i \in 1..(file_idx - 1) : \A name \in DOMAIN rust_files[i].functions :
                 LET last == rust_files[Max(Writers(mods, mods[i], name))]
                     qn == qualified_name(mods[i], name)
                 IN  /\ qn \in DOMAIN function_definitions
                     /\ function_definitions[qn] =
                            FunctionInfo(last.path, mods[i], name,
                                         last.functions[name])
            /\ Cardinality(DOMAIN function_definitions) =
                   Cardinality(UNION { { << mods[i], name >> :
                                           name \in DOMAIN rust_files[i].functions } :
                                       i \in 1..(file_idx - 1) })

\* The index is built and two files have collided on a qualified name whose
\* raw calls differ between them.
C7_Witness ==
    /\ pc = "select"
    /\ \E i, j \in 1..Len(rust_files) :
         /\ i < j
         /\ extract_module_path(rust_files[i].path) =
                extract_module_path(rust_files[j].path)
         /\ \E name \in DOMAIN rust_files[i].functions \cap DOMAIN rust_files[j].functions :
              rust_files[i].functions[name] # rust_files[j].functions[name]

\* How often a qualified name was expanded: lines 155-168 push its section and
\* enqueue its edges together.
Expansions(q) ==
    Cardinality({ i \in 1..Len(output) : output[i].qualified_name = q })

\* C8: the traversal terminates (the queue becomes empty and the loop ends),
\* and no qualified name is expanded more than once.
C8_Terminates ==
    /\ (pc = "bfs") ~> (pc = "done" /\ queue = << >>)
    /\ [](\A q \in Emitted : Expansions(q) <= 1)

\* A self-recursive function, already visited, is in the queue again.
C8_Witness ==
    /\ pc = "bfs"
    /\ \E i \in 1..Len(queue) :
         /\ queue[i] \in visited
         /\ queue[i] \in function_calls[queue[i]]

\* C10: after indexing and resolution the call graph has an entry for every
\* key of definitions, every qualified name of by_name is a key of
\* definitions, and so is every edge target and every enqueued name.
C10_IndexClosed ==
    /\ Resolved => DOMAIN function_calls = DOMAIN function_definitions
    /\ \A n \in DOMAIN module_functions : \A k \in 1..Len(module_functions[n]) :
         module_functions[n][k][1] \in DOMAIN function_definitions
    /\ \A q \in DOMAIN function_calls :
         function_calls[q] \subseteq DOMAIN function_definitions
    /\ \A i \in 1..Len(queue) : queue[i] \in DOMAIN function_definitions

\* The call graph holds an empty edge set, for an index with a collision.
C10_Witness ==
    /\ Resolved
    /\ \E q \in DOMAIN function_calls : function_calls[q] = {}
    /\ \E n \in DOMAIN module_functions : \E i, j \in 1..Len(module_functions[n]) :
         i # j /\ module_functions[n][i] = module_functions[n][j]

\* The nesting counter after the first k scanned characters.
Depth(rest, k) ==
    Cardinality({ j \in 1..k : rest[j] = "{" })
        - Cardinality({ j \in 1..k : rest[j] = "}" })

\* The closing delimiters that return the counter to zero after an opening
\* delimiter was seen.
ClosingPositions(rest) ==
    { k \in 1..Len(rest) :
        /\ rest[k] = "}"
        /\ Depth(rest, k) = 0
        /\ \E j \in 1..(k - 1) : rest[j] = "{" }

\* The text after the signature opens a body whose delimiters are balanced.
BalancedBody(rest) ==
    /\ ClosingPositions(rest) # {}
    /\ \A k \in 1..Min(ClosingPositions(rest)) : Depth(rest, k) >= 0

Count(s, c) == Cardinality({ j \in 1..Len(s) : s[j] = c })

ScanOver == scan_pc \in { "done", "panic" }

\* C6: for a function whose body has balanced block delimiters the definition
\* ends at, and includes, the first closing delimiter that returns the counter
\* to zero after an opening one, so the extracted text has as many opening as
\* closing delimiters.
C6_BalancedDefinition ==
    (ScanOver /\ BalancedBody(scanned(content))) =>
        /\ scan_pc = "done"
        /\ fn_body =
               Some(trim(Signature
                           \o SubSeq(scanned(content), 1,
                                     Min(ClosingPositions(scanned(content))))))
        /\ Count(fn_body[1], "{") = Count(fn_body[1], "}")

\* C9: when the scan reaches the end of the file without such a closing
\* delimiter, the definition ends at min(signature end + 5000, file length).
C9_FallbackWindow ==
    (ScanOver /\ ClosingPositions(scanned(content)) = {}) =>
        def_end = Min({ byte_len(Signature) + FallbackWindow, byte_len(content) })

====
